---- MODULE Spec2Model ----
(***************************************************************************)
(* Simple Cashier API: the product catalog and the transaction-creation    *)
(* workflow, in both versions the repository holds: routers/transactions.py*)
(* (one batched product query, flush, one commit) and main.py (one         *)
(* session.get per entry, two commits).                                    *)
(*                                                                         *)
(* The committed database (tables product, transaction, transactionitem    *)
(* and the two id sequences) is the shared state.  Every request runs in   *)
(* its own SQLAlchemy session (database.get_session); a session is split   *)
(* into one action per database round trip, so that requests of different  *)
(* clients interleave exactly where the database lets them.  The engine is *)
(* created without an isolation level (database.py:19-33), so statements   *)
(* run READ COMMITTED: a SELECT sees the last committed rows, an UPDATE    *)
(* writes the absolute value the ORM computed and holds the row lock until *)
(* the session commits or rolls back.                                      *)
(*                                                                         *)
(* price and total_amount are floats in the source; the model draws prices *)
(* from small integers, on which float arithmetic is exact.  Product.name, *)
(* Product.description and created_at take part in no decision and are     *)
(* left out.                                                               *)
(***************************************************************************)
EXTENDS Integers, Sequences, FiniteSets, TLC

\* ---- bounds of the model ----
MaxProducts == 2
MaxStock == 2
MaxQty == 1
MaxPrice == 2
MaxItems == 3
MaxTxns == 2
MaxWork == 4
NumClients == 2

VARIABLES
    product,             \* table product: id -> [price, stock]
    product_id_seq,      \* next value of product.id
    transaction,         \* table transaction: id -> [total_amount]
    transaction_id_seq,  \* next value of transaction.id
    transactionitem,     \* table transactionitem, in insertion order
    session,             \* client -> the request it has in flight
    deployed,            \* the application that serves: "main" (main.py's own
                         \* handlers) or "routers" (the routers/ handlers)
    work,                \* what the requests received so far ask to write: one
                         \* unit per catalog request, one per entry of a sale
    initial_stock        \* history: product id -> the stock create_product gave it

vars == <<product, product_id_seq, transaction, transaction_id_seq,
          transactionitem, session, deployed, work, initial_stock>>

Clients == 1..NumClients
ProductIds == 1..MaxProducts
TransactionIds == 1..MaxTxns

\* ProductBase: price: float, stock: int = 0, neither constrained
\* (the model draws one negative price and the positive ones)
Prices == {-1} \cup 1..MaxPrice
Stocks == (-1)..MaxStock

\* TransactionItemCreate: product_id: int, quantity: int, neither constrained
\* (the model draws one negative quantity and the positive ones)
Quantities == {-1} \cup 1..MaxQty
TransactionItemCreate == [product_id : ProductIds, quantity : Quantities]

\* TransactionCreate.items: List[TransactionItemCreate]
TransactionCreate == UNION {[1..n -> TransactionItemCreate] : n \in 0..MaxItems}

\* ProductUpdate: every field optional; model_dump(exclude_unset=True) keeps
\* the fields the request sets
ProductUpdate ==
    {u \in UNION {[f -> Prices \cup Stocks] : f \in SUBSET {"price", "stock"}} :
        /\ "price" \in DOMAIN u => u.price \in Prices
        /\ "stock" \in DOMAIN u => u.stock \in Stocks}

Range(s) == {s[i] : i \in DOMAIN s}

EmptyMap == [x \in {} |-> 0]

\* ---- responses ----
NoBody == [id |-> 0, total_amount |-> 0, items |-> <<>>]

Response(status, error) ==
    [status |-> status, error |-> error, missing |-> {}, product_id |-> 0,
     available |-> 0, requested |-> 0, body |-> NoBody]

\* ---- sessions ----
\* pc: where the handler stands; op: the handler; items: transaction_in.items;
\* idx: the entry main.py's loop is at; loaded: the rows as the session last
\* read or flushed them; product_dict: the Product objects the handler holds
\* (routers: product_dict, main.py: the session's identity map);
\* total_amount, transaction_items: the handler's locals; tid:
\* db_transaction.id; flushed: the product rows the session has written and
\* not yet committed; reads: the SELECTs on table product the session has
\* issued; resp: the response.
\* before (the committed tables when the request arrived), seen (the product
\* rows as the request first read them) and overlapped (the create_transaction
\* requests that committed while this one was in flight: their items and what
\* they had seen) are history the claims read; no handler reads them.
NoTables == [product |-> EmptyMap, transaction |-> EmptyMap, transactionitem |-> <<>>]

IdleSession ==
    [pc |-> "idle", op |-> "none", items |-> <<>>, idx |-> 0,
     loaded |-> EmptyMap, product_dict |-> EmptyMap,
     total_amount |-> 0, transaction_items |-> <<>>, tid |-> 0,
     flushed |-> {}, reads |-> 0, resp |-> Response(0, "none"),
     before |-> NoTables, seen |-> EmptyMap, overlapped |-> {}]

Tables == [product |-> product, transaction |-> transaction,
           transactionitem |-> transactionitem]

\* A handler that touches no transaction state ends
Done(c, op, resp) ==
    [IdleSession EXCEPT !.pc = "done", !.op = op, !.resp = resp]

\* create_transaction ends: the session is closed (a rollback of whatever it
\* had not committed, which releases its row locks)
Finish(s, resp) ==
    [s EXCEPT !.pc = "done", !.flushed = {}, !.resp = resp]

\* Another session has written the row and not yet committed: the row lock
LockedByOther(c, id) ==
    \E d \in Clients \ {c} : id \in session[d].flushed

\* The rows of a transaction, in insertion order (Transaction.items)
RECURSIVE ItemsOf(_, _, _)
ItemsOf(rows, t, i) ==
    IF i > Len(rows) THEN <<>>
    ELSE IF rows[i].transaction_id = t
         THEN <<rows[i]>> \o ItemsOf(rows, t, i + 1)
         ELSE ItemsOf(rows, t, i + 1)

\* (a read that reports the product's current price instead of the item's)
TransactionRead_current_price(t, txns, rows) ==
    [id |-> t, total_amount |-> txns[t].total_amount,
     items |-> [i \in DOMAIN ItemsOf(rows, t, 1) |->
                   [ItemsOf(rows, t, 1)[i] EXCEPT !.price =
                       product[ItemsOf(rows, t, 1)[i].product_id].price]]]

TransactionRead(t, txns, rows) ==
    [id |-> t, total_amount |-> txns[t].total_amount, items |-> ItemsOf(rows, t, 1)]

\* ---- products (routers/products.py; main.py holds the same handlers) ----

\* Product.model_validate(product): the fields are typed, not range-checked
model_validate(p) == p.price \in Int /\ p.stock \in Int

\* for key, value in product_data.items(): setattr(db_product, key, value)
setattrs(db_product, product_data) ==
    [f \in DOMAIN db_product |->
        IF f \in DOMAIN product_data THEN product_data[f] ELSE db_product[f]]

\* The committed transaction items that reference a product
\* (Product.transaction_items)
transaction_items_of(id) ==
    {i \in DOMAIN transactionitem : transactionitem[i].product_id = id}

create_product(c, p) ==
    /\ session[c].pc = "idle"
    /\ work < MaxWork
    /\ product_id_seq <= MaxProducts
    /\ model_validate(p)
    /\ product' = [id \in DOMAIN product \cup {product_id_seq} |->
                      IF id = product_id_seq THEN p ELSE product[id]]
    /\ product_id_seq' = product_id_seq + 1
    /\ session' = [session EXCEPT ![c] = Done(c, "create_product", Response(201, "none"))]
    /\ work' = work + 1
    /\ initial_stock' = [id \in DOMAIN product' |->
                             IF id = product_id_seq THEN p.stock ELSE initial_stock[id]]
    /\ UNCHANGED <<deployed, transaction, transaction_id_seq, transactionitem>>

update_product(c, product_id, u) ==
    /\ session[c].pc = "idle"
    /\ work < MaxWork
    /\ IF product_id \notin DOMAIN product
       THEN /\ session' = [session EXCEPT ![c] =
                              Done(c, "update_product", Response(404, "not_found"))]
            /\ UNCHANGED product
       ELSE /\ setattrs(product[product_id], u) # product[product_id]
                  => ~LockedByOther(c, product_id)
            /\ product' = [product EXCEPT ![product_id] = setattrs(@, u)]
            /\ session' = [session EXCEPT ![c] =
                              Done(c, "update_product", Response(200, "none"))]
    /\ work' = work + 1
    /\ UNCHANGED <<initial_stock, deployed, product_id_seq, transaction, transaction_id_seq, transactionitem>>

\* session.delete(product) first blanks product_id in the items of
\* Product.transaction_items (the relationship has no delete cascade); the
\* column is NOT NULL (models.py:32), so the commit fails and rolls back
delete_product(c, product_id) ==
    /\ session[c].pc = "idle"
    /\ work < MaxWork
    /\ IF product_id \notin DOMAIN product
       THEN /\ session' = [session EXCEPT ![c] =
                              Done(c, "delete_product", Response(404, "not_found"))]
            /\ UNCHANGED product
       ELSE /\ ~LockedByOther(c, product_id)
            /\ IF transaction_items_of(product_id) # {}
               THEN /\ session' = [session EXCEPT ![c] =
                                      Done(c, "delete_product", Response(500, "integrity"))]
                    /\ UNCHANGED product
               ELSE /\ product' = [id \in DOMAIN product \ {product_id} |-> product[id]]
                    /\ session' = [session EXCEPT ![c] =
                                      Done(c, "delete_product", Response(204, "none"))]
    /\ work' = work + 1
    /\ initial_stock' = [id \in DOMAIN product' |-> initial_stock[id]]
    /\ UNCHANGED <<deployed, product_id_seq, transaction, transaction_id_seq, transactionitem>>

\* ---- create_transaction: what both versions share ----

\* (a stock check that lets everything through)
enough_stock_unchecked(p, item_in) == TRUE

\* if product.stock < item_in.quantity: raise HTTPException(400)
enough_stock(p, item_in) == ~(p.stock < item_in.quantity)

\* (a deduction that is never made)
deduct_stock_skipped(p, item_in) == p

\* product.stock -= item_in.quantity
deduct_stock(p, item_in) == [p EXCEPT !.stock = @ - item_in.quantity]

\* (a line total that leaves the quantity out)
item_total_without_quantity(p, item_in) == p.price

\* item_total = product.price * item_in.quantity
item_total(p, item_in) == p.price * item_in.quantity

\* TransactionItem(product_id=product.id, quantity=item_in.quantity,
\*                 price=product.price), transaction_id still unset
new_item(id, p, item_in) ==
    [product_id |-> id, quantity |-> item_in.quantity, price |-> p.price,
     transaction_id |-> 0]

\* The product rows an ORM flush writes: the objects whose stock differs from
\* what the session last read or wrote
dirty(s) ==
    {id \in DOMAIN s.product_dict : s.product_dict[id].stock # s.loaded[id].stock}

\* UPDATE product SET stock = <the object's stock> WHERE id = <id>
write_stock(rows, s, ids) ==
    [id \in DOMAIN rows |->
        IF id \in ids THEN [rows[id] EXCEPT !.stock = s.product_dict[id].stock]
        ELSE rows[id]]

\* (the items are saved last entry first)
associate_reversed(transaction_items, tid) ==
    [i \in DOMAIN transaction_items |->
        [transaction_items[Len(transaction_items) + 1 - i] EXCEPT !.transaction_id = tid]]

\* for item in transaction_items: item.transaction_id = db_transaction.id
associate(transaction_items, tid) ==
    [i \in DOMAIN transaction_items |->
        [transaction_items[i] EXCEPT !.transaction_id = tid]]

insert_transaction(txns, tid, total_amount) ==
    [t \in DOMAIN txns \cup {tid} |->
        IF t = tid THEN [total_amount |-> total_amount] ELSE txns[t]]

\* transactionitem.product_id REFERENCES product(id)
foreign_keys_hold(transaction_items) ==
    \A i \in DOMAIN transaction_items :
        transaction_items[i].product_id \in DOMAIN product

\* c's create_transaction has succeeded: the sales still in flight note it
note_commit(ss, c) ==
    [d \in Clients |->
        IF d # c /\ ss[d].op = "create_transaction" /\ ss[d].pc # "done"
        THEN [ss[d] EXCEPT !.overlapped =
                 @ \cup {[items |-> ss[c].items, seen |-> ss[c].seen]}]
        ELSE ss[d]]

\* Building the response reads product.name of every product of the sale
\* after the commit has expired the objects: one SELECT per product
reload_products(s) == [s EXCEPT !.reads = @ + Cardinality(DOMAIN s.product_dict)]

\* The units of work a sale asks for
cost(items) == IF Len(items) = 0 THEN 1 ELSE Len(items)

\* The model stops taking sales once MaxTxns transaction ids are spoken for
room_for_transaction(c) ==
    transaction_id_seq + Cardinality({d \in Clients \ {c} :
        session[d].pc \in {"pending", "loop"}}) <= MaxTxns

\* ---- create_transaction, routers/transactions.py ----

\* (every entry is checked against the committed row, not against the stock
\* the earlier entries of the request have left)
RECURSIVE validate_items_untracked(_, _, _, _, _)
validate_items_untracked(items, i, product_dict, total_amount, transaction_items) ==
    IF i > Len(items)
    THEN [ok |-> TRUE, at |-> 0, product_dict |-> product_dict,
          total_amount |-> total_amount, transaction_items |-> transaction_items]
    ELSE LET item_in == items[i]
             p == product_dict[item_in.product_id]
         IN IF ~enough_stock(product[item_in.product_id], item_in)
            THEN [ok |-> FALSE, at |-> i, product_dict |-> product_dict,
                  total_amount |-> total_amount,
                  transaction_items |-> transaction_items]
            ELSE validate_items_untracked(items, i + 1,
                     [product_dict EXCEPT ![item_in.product_id] = deduct_stock(p, item_in)],
                     total_amount + item_total(p, item_in),
                     Append(transaction_items, new_item(item_in.product_id, p, item_in)))

\* (when several entries exceed the stock, the last of them is reported)
RECURSIVE validate_items_last_failure(_, _, _, _, _)
validate_items_last_failure(items, i, product_dict, total_amount, transaction_items) ==
    IF i > Len(items)
    THEN [ok |-> TRUE, at |-> 0, product_dict |-> product_dict,
          total_amount |-> total_amount, transaction_items |-> transaction_items]
    ELSE LET item_in == items[i]
             p == product_dict[item_in.product_id]
             later == {j \in (i + 1)..Len(items) :
                          ~enough_stock(product_dict[items[j].product_id], items[j])}
         IN IF ~enough_stock(p, item_in)
            THEN [ok |-> FALSE,
                  at |-> IF later = {} THEN i
                         ELSE CHOOSE j \in later : \A k \in later : k <= j,
                  product_dict |-> product_dict,
                  total_amount |-> total_amount,
                  transaction_items |-> transaction_items]
            ELSE validate_items_last_failure(items, i + 1,
                     [product_dict EXCEPT ![item_in.product_id] = deduct_stock(p, item_in)],
                     total_amount + item_total(p, item_in),
                     Append(transaction_items, new_item(item_in.product_id, p, item_in)))

\* for item_in in transaction_in.items: validate, deduct, price (lines 47-70)
RECURSIVE validate_items(_, _, _, _, _)
validate_items(items, i, product_dict, total_amount, transaction_items) ==
    IF i > Len(items)
    THEN [ok |-> TRUE, at |-> 0, product_dict |-> product_dict,
          total_amount |-> total_amount, transaction_items |-> transaction_items]
    ELSE LET item_in == items[i]
             p == product_dict[item_in.product_id]
         IN IF ~enough_stock(p, item_in)
            THEN [ok |-> FALSE, at |-> i, product_dict |-> product_dict,
                  total_amount |-> total_amount,
                  transaction_items |-> transaction_items]
            ELSE validate_items(items, i + 1,
                     [product_dict EXCEPT ![item_in.product_id] = deduct_stock(p, item_in)],
                     total_amount + item_total(p, item_in),
                     Append(transaction_items, new_item(item_in.product_id, p, item_in)))

\* (only the first missing id met is reported)
missing_ids_first_only(product_ids, product_dict) ==
    LET absent == {i \in DOMAIN product_ids : product_ids[i] \notin DOMAIN product_dict}
    IN {product_ids[i] : i \in {j \in absent : \A k \in absent : j <= k}}

\* missing_ids = set(product_ids) - set(product_dict.keys())
missing_ids(product_ids, product_dict) ==
    Range(product_ids) \ DOMAIN product_dict

NotFound(missing) == [Response(404, "not_found") EXCEPT !.missing = missing]

InsufficientStock(id, available, requested) ==
    [Response(400, "stock") EXCEPT !.product_id = id, !.available = available,
                                   !.requested = requested]

\* Lines 26-70: the one product query, then validation and pricing in memory
router_create_transaction(c, items) ==
    /\ session[c].pc = "idle"
    /\ work + cost(items) <= MaxWork
    /\ deployed = "routers"
    /\ room_for_transaction(c)
    /\ LET product_ids == [i \in DOMAIN items |-> items[i].product_id]
           s0 == [IdleSession EXCEPT !.op = "create_transaction",
                                     !.items = items, !.before = Tables]
           ss == session
       IN IF product_ids = <<>>
          THEN session' = [ss EXCEPT ![c] = Finish(s0, Response(400, "empty"))]
          ELSE LET product_dict == [id \in Range(product_ids) \cap DOMAIN product |->
                                       product[id]]
                   missing == missing_ids(product_ids, product_dict)
                   r == validate_items(items, 1, product_dict, 0, <<>>)
                   s1 == [s0 EXCEPT !.reads = 1]
               IN IF missing # {}
                  THEN session' = [ss EXCEPT ![c] = Finish(s1, NotFound(missing))]
                  ELSE IF ~r.ok
                  THEN session' = [ss EXCEPT ![c] = Finish(s1,
                          InsufficientStock(items[r.at].product_id,
                              r.product_dict[items[r.at].product_id].stock,
                              items[r.at].quantity))]
                  ELSE session' = [ss EXCEPT ![c] =
                          [s1 EXCEPT !.pc = "pending", !.loaded = product_dict,
                                     !.seen = product_dict,
                                     !.product_dict = r.product_dict,
                                     !.total_amount = r.total_amount,
                                     !.transaction_items = r.transaction_items]]
    /\ work' = work + cost(items)
    /\ UNCHANGED <<initial_stock, deployed, product, product_id_seq, transaction, transaction_id_seq,
                   transactionitem>>

\* Lines 73-75: session.add(db_transaction); session.flush().  The UPDATEs of
\* the changed products and the INSERT of the transaction run inside the
\* database transaction; an UPDATE that matches no row is a StaleDataError
router_flush(c) ==
    LET s == session[c] IN
    /\ s.pc = "pending"
    /\ \A id \in dirty(s) : ~LockedByOther(c, id)
    /\ IF dirty(s) \subseteq DOMAIN product
       THEN /\ session' = [session EXCEPT ![c] =
                              [s EXCEPT !.pc = "flushed", !.flushed = dirty(s),
                                        !.tid = transaction_id_seq]]
            /\ transaction_id_seq' = transaction_id_seq + 1
       ELSE /\ session' = [session EXCEPT ![c] = Finish(s, Response(500, "stale"))]
            /\ UNCHANGED transaction_id_seq
    /\ UNCHANGED <<initial_stock, deployed, work, product, product_id_seq, transaction, transactionitem>>

\* Lines 78-104: the items are inserted, the one commit, the refresh and the
\* response built from the refreshed transaction.  The commit expires every
\* object of the session (Session(engine) keeps expire_on_commit, the
\* default), so product.name at line 96 reloads each product of product_dict
\* with a SELECT of its own
router_commit(c) ==
    LET s == session[c]
        rows == associate(s.transaction_items, s.tid)
    IN
    /\ s.pc = "flushed"
    /\ IF foreign_keys_hold(rows)
       THEN /\ product' = write_stock(product, s, s.flushed)
            /\ transaction' = insert_transaction(transaction, s.tid, s.total_amount)
            /\ transactionitem' = transactionitem \o rows
            /\ session' = [note_commit(session, c) EXCEPT ![c] =
                              Finish(reload_products(s), [Response(201, "none") EXCEPT !.body =
                                  TransactionRead(s.tid, transaction', transactionitem')])]
       ELSE /\ session' = [session EXCEPT ![c] = Finish(s, Response(500, "integrity"))]
            /\ UNCHANGED <<product, transaction, transactionitem>>
    /\ UNCHANGED <<initial_stock, deployed, work, product_id_seq, transaction_id_seq>>

\* ---- create_transaction, main.py ----

main_create_transaction(c, items) ==
    /\ session[c].pc = "idle"
    /\ work + cost(items) <= MaxWork
    /\ deployed = "main"
    /\ room_for_transaction(c)
    /\ session' = [session EXCEPT ![c] =
                      [IdleSession EXCEPT !.pc = "loop", !.op = "create_transaction",
                                          !.items = items, !.idx = 1,
                                          !.before = Tables]]
    /\ work' = work + cost(items)
    /\ UNCHANGED <<initial_stock, deployed, product, product_id_seq, transaction, transaction_id_seq,
                   transactionitem>>

\* product = session.get(Product, id) on an object the session does not hold
\* yet: the session autoflushes its changed products, then selects the row
get_product(s, id) ==
    LET held == [x \in DOMAIN s.product_dict \cup {id} |->
                    IF x = id THEN product[id] ELSE s.product_dict[x]]
    IN [s EXCEPT !.flushed = @ \cup dirty(s), !.loaded = held, !.product_dict = held,
                 !.reads = @ + 1,
                 !.seen = [x \in DOMAIN held |-> IF x = id THEN product[id] ELSE s.seen[x]]]

\* Lines 72-94, one entry of the loop
main_loop(c) ==
    LET s == session[c]
        item_in == s.items[s.idx]
        id == item_in.product_id
        cached == id \in DOMAIN s.product_dict
        autoflush == IF cached THEN {} ELSE dirty(s)
    IN
    /\ s.pc = "loop"
    /\ s.idx <= Len(s.items)
    /\ \A w \in autoflush : ~LockedByOther(c, w)
    /\ IF ~(autoflush \subseteq DOMAIN product)
       THEN session' = [session EXCEPT ![c] = Finish(s, Response(500, "stale"))]
       ELSE IF ~cached /\ id \notin DOMAIN product
       THEN session' = [session EXCEPT ![c] = Finish(s, NotFound({id}))]
       ELSE LET s1 == IF cached THEN s ELSE get_product(s, id)
                p == s1.product_dict[id]
            IN IF ~enough_stock(p, item_in)
               THEN session' = [session EXCEPT ![c] =
                       Finish(s1, InsufficientStock(id, 0, 0))]
               ELSE session' = [session EXCEPT ![c] =
                       [s1 EXCEPT !.product_dict[id] = deduct_stock(p, item_in),
                                  !.total_amount = @ + item_total(p, item_in),
                                  !.transaction_items =
                                      Append(@, new_item(id, p, item_in)),
                                  !.idx = @ + 1]]
    /\ UNCHANGED <<initial_stock, deployed, work, product, product_id_seq, transaction, transaction_id_seq,
                   transactionitem>>

\* Lines 97-100: the transaction row and the stock deductions are committed
main_commit_transaction(c) ==
    LET s == session[c] IN
    /\ s.pc = "loop"
    /\ s.idx > Len(s.items)
    /\ \A w \in dirty(s) : ~LockedByOther(c, w)
    /\ IF dirty(s) \subseteq DOMAIN product
       THEN /\ product' = write_stock(product, s, s.flushed \cup dirty(s))
            /\ transaction' = insert_transaction(transaction, transaction_id_seq,
                                                 s.total_amount)
            /\ transaction_id_seq' = transaction_id_seq + 1
            /\ session' = [session EXCEPT ![c] =
                              [s EXCEPT !.pc = "committed", !.flushed = {},
                                        !.loaded = s.product_dict,
                                        !.tid = transaction_id_seq]]
       ELSE /\ session' = [session EXCEPT ![c] = Finish(s, Response(500, "stale"))]
            /\ UNCHANGED <<product, transaction, transaction_id_seq>>
    /\ UNCHANGED <<initial_stock, deployed, work, product_id_seq, transactionitem>>

\* Lines 103-132: the items are inserted in a second commit, then the
\* response; item.product.name at line 124 loads each product again
main_commit_items(c) ==
    LET s == session[c]
        rows == associate(s.transaction_items, s.tid)
    IN
    /\ s.pc = "committed"
    /\ IF foreign_keys_hold(rows)
       THEN /\ transactionitem' = transactionitem \o rows
            /\ session' = [note_commit(session, c) EXCEPT ![c] =
                              Finish(reload_products(s), [Response(201, "none") EXCEPT !.body =
                                  TransactionRead(s.tid, transaction, transactionitem')])]
       ELSE /\ session' = [session EXCEPT ![c] = Finish(s, Response(500, "integrity"))]
            /\ UNCHANGED transactionitem
    /\ UNCHANGED <<initial_stock, deployed, work, product, product_id_seq, transaction, transaction_id_seq>>

\* The storage layer fails at the round trip the handler is about to make
\* (a query, a flush or a commit): the exception ends the request and the
\* session closes, rolling back what it had not committed
storage_failure(c) ==
    /\ session[c].pc \in {"pending", "flushed", "loop", "committed"}
    /\ session' = [session EXCEPT ![c] = Finish(session[c], Response(500, "storage"))]
    /\ UNCHANGED <<initial_stock, deployed, work, product, product_id_seq, transaction, transaction_id_seq,
                   transactionitem>>

\* ---- read_transaction (routers/transactions.py:144-180, main.py:159-180) ----
read_transaction(c, transaction_id) ==
    /\ session[c].pc = "idle"
    /\ session' = [session EXCEPT ![c] =
          IF transaction_id \in DOMAIN transaction
          THEN Done(c, "read_transaction", [Response(200, "none") EXCEPT !.body =
                   TransactionRead(transaction_id, transaction, transactionitem)])
          ELSE Done(c, "read_transaction", Response(404, "not_found"))]
    /\ UNCHANGED <<initial_stock, deployed, work, product, product_id_seq, transaction, transaction_id_seq,
                   transactionitem>>

\* The response has been sent; get_session closes the session
Return(c) ==
    /\ session[c].pc = "done"
    /\ session' = [session EXCEPT ![c] = IdleSession]
    /\ UNCHANGED <<initial_stock, deployed, work, product, product_id_seq, transaction, transaction_id_seq,
                   transactionitem>>

Init ==
    /\ product = EmptyMap
    /\ product_id_seq = 1
    /\ transaction = EmptyMap
    /\ transaction_id_seq = 1
    /\ transactionitem = <<>>
    /\ session = [c \in Clients |-> IdleSession]
    /\ deployed \in {"main", "routers"}
    /\ work = 0
    /\ initial_stock = EmptyMap

\* A request to the catalog or a read: one handler, one commit
CatalogStep(c) ==
    \/ \E p \in [price : Prices, stock : Stocks] : create_product(c, p)
    \/ \E id \in ProductIds, u \in ProductUpdate : update_product(c, id, u)
    \/ \E id \in ProductIds : delete_product(c, id)
    \/ \E t \in TransactionIds : read_transaction(c, t)

\* One round trip of a create_transaction request
SaleStep(c) ==
    \/ \E items \in TransactionCreate : router_create_transaction(c, items)
    \/ router_flush(c)
    \/ router_commit(c)
    \/ \E items \in TransactionCreate : main_create_transaction(c, items)
    \/ main_loop(c)
    \/ main_commit_transaction(c)
    \/ main_commit_items(c)
    \/ storage_failure(c)

\* One request at a time: every handler runs to its response before the next
\* request arrives
Next == CatalogStep(1) \/ SaleStep(1) \/ Return(1)

Spec == Init /\ [][Next]_vars

\* One request at a time, the catalog only growing: products are created and
\* sold, never updated or deleted
NextSales ==
    \/ \E p \in [price : Prices, stock : Stocks] : create_product(1, p)
    \/ SaleStep(1)
    \/ Return(1)

SpecSales == Init /\ [][NextSales]_vars

\* create_transaction requests of different clients interleave round trip by
\* round trip.  A response is delivered as soon as its handler ends; clients
\* are interchangeable, so a request arrives at the first client that is
\* free; the catalog is edited and read between sales.
Turn(c) == \A d \in Clients \ {c} : session[d].pc # "done"

Arrives(c) == Turn(c) /\ \A d \in 1..(c - 1) : session[d].pc # "idle"

Quiet(c) == \A d \in Clients \ {c} : session[d].pc = "idle"

NextConcurrent ==
    \E c \in Clients :
        \/ Quiet(c) /\ Arrives(c) /\ CatalogStep(c)
        \/ Arrives(c) /\ \E items \in TransactionCreate : router_create_transaction(c, items)
        \/ Turn(c) /\ router_flush(c)
        \/ Turn(c) /\ router_commit(c)
        \/ Arrives(c) /\ \E items \in TransactionCreate : main_create_transaction(c, items)
        \/ Turn(c) /\ main_loop(c)
        \/ Turn(c) /\ main_commit_transaction(c)
        \/ Turn(c) /\ main_commit_items(c)
        \/ Turn(c) /\ storage_failure(c)
        \/ Return(c)

SpecConcurrent == Init /\ [][NextConcurrent]_vars

\* ---------------------------------------------------------------------------
\* What the claims read
\* ---------------------------------------------------------------------------

\* Client c's create_transaction has ended and its response is in hand
SaleEnded(c) ==
    session[c].op = "create_transaction" /\ session[c].pc = "done"

SaleSucceeded(c) == SaleEnded(c) /\ session[c].resp.status = 201

\* The entries of a request that name product id
EntriesFor(items, id) == {i \in DOMAIN items : items[i].product_id = id}

\* The quantities a request asks of product id, added up over its entries
RECURSIVE Requested(_, _, _)
Requested(items, id, i) ==
    IF i > Len(items) THEN 0
    ELSE (IF items[i].product_id = id THEN items[i].quantity ELSE 0)
         + Requested(items, id, i + 1)

\* sum(item.price * item.quantity for item in rows)
RECURSIVE SumOfLines(_, _)
SumOfLines(rows, i) ==
    IF i > Len(rows) THEN 0
    ELSE rows[i].price * rows[i].quantity + SumOfLines(rows, i + 1)

\* C1: in every committed state, every product's stock is >= 0.
C1_StockNeverNegative ==
    \A id \in DOMAIN product : product[id].stock >= 0

\* C2: when create_transaction succeeds, the total_amount it persisted and
\* returned is the sum of price * quantity over the transaction's persisted
\* items, one item per entry, each at the price the product had when the
\* request arrived.
C2_TotalIsSumOfItems ==
    \A c \in Clients :
        SaleSucceeded(c) =>
            LET s == session[c]
                t == s.resp.body.id
                rows == ItemsOf(transactionitem, t, 1)
            IN /\ t \in DOMAIN transaction
               /\ transaction[t].total_amount = SumOfLines(rows, 1)
               /\ s.resp.body.total_amount = transaction[t].total_amount
               /\ s.resp.body.items = rows
               /\ Len(rows) = Len(s.items)
               /\ \A i \in DOMAIN rows :
                      /\ rows[i].product_id \in DOMAIN s.before.product
                      /\ rows[i].price = s.before.product[rows[i].product_id].price

\* A sale of two products at different prices has succeeded
C2_Witness ==
    \E c \in Clients :
        /\ SaleSucceeded(c)
        /\ Len(session[c].items) = 2
        /\ session[c].resp.body.total_amount = 3
        /\ \E i, j \in DOMAIN session[c].resp.body.items :
               session[c].resp.body.items[i].price # session[c].resp.body.items[j].price

\* C3: after a successful create_transaction with nothing interleaved, every
\* product's stock is its stock before the call minus the quantities the
\* request asks of it, added up over its entries; the stock of a product the
\* request names is not negative, and the other products are unchanged.
C3_StockDeducted ==
    SaleSucceeded(1) =>
        LET s == session[1] IN
        /\ DOMAIN product = DOMAIN s.before.product
        /\ \A id \in DOMAIN product :
               /\ product[id].stock =
                      s.before.product[id].stock - Requested(s.items, id, 1)
               /\ EntriesFor(s.items, id) # {} => product[id].stock >= 0
               /\ EntriesFor(s.items, id) = {} => product[id] = s.before.product[id]
               /\ product[id].price = s.before.product[id].price

\* A sale with two entries for one product has succeeded, beside a product
\* it does not name
C3_Witness ==
    /\ SaleSucceeded(1)
    /\ \E id, other \in DOMAIN product :
           /\ Cardinality(EntriesFor(session[1].items, id)) = 2
           /\ Requested(session[1].items, id, 1) = 2
           /\ session[1].before.product[id].stock = 2
           /\ EntriesFor(session[1].items, other) = {}


\* The stock entry i of a request finds: the stock before the call less what
\* the earlier entries for the same product ask
RECURSIVE RequestedBefore(_, _, _)
RequestedBefore(items, i, j) ==
    IF j >= i THEN 0
    ELSE (IF items[j].product_id = items[i].product_id THEN items[j].quantity ELSE 0)
         + RequestedBefore(items, i, j + 1)

Available(items, i, tables) ==
    tables.product[items[i].product_id].stock - RequestedBefore(items, i, 1)

\* Some entry asks for more than the available stock of its product
Exceeds(items, tables) ==
    \E i \in DOMAIN items :
        /\ items[i].product_id \in DOMAIN tables.product
        /\ items[i].quantity > Available(items, i, tables)

\* Every product id of the request is in the catalog
AllExist(items, tables) ==
    \A i \in DOMAIN items : items[i].product_id \in DOMAIN tables.product

\* The request and the catalog it met are what the spec's data model allows:
\* quantities of at least 1, no negative stock, no negative price
WellFormed(items, tables) ==
    /\ \A i \in DOMAIN items : items[i].quantity >= 1
    /\ \A id \in DOMAIN tables.product :
           tables.product[id].stock >= 0 /\ tables.product[id].price >= 0

\* C4, as claimed: if any entry asks for more than the available stock of its
\* product, the call fails with the insufficient-stock error and the
\* committed tables are those before the call (stated for well-formed
\* requests and catalogs, the storage layer not failing).
C4_ExcessFailsWithStockError ==
    (SaleEnded(1) /\ Exceeds(session[1].items, session[1].before)
                  /\ WellFormed(session[1].items, session[1].before)
                  /\ session[1].resp.error # "storage") =>
        /\ session[1].resp.error = "stock"
        /\ Tables = session[1].before

\* C4, amended: if any entry asks for more than the available stock of its
\* product, the call fails and the committed tables are those before the
\* call; the error is insufficient-stock when every product id of the request
\* exists, and with an absent id it is not-found in routers/transactions.py
\* and whichever of the two the loop meets first in main.py.
C4_ExcessFailsAtomically ==
    (SaleEnded(1) /\ Exceeds(session[1].items, session[1].before)) =>
        LET s == session[1] IN
        /\ s.resp.status # 201
        /\ Tables = s.before
        /\ s.resp.error # "storage" =>
              /\ s.resp.error \in {"stock", "not_found"}
              /\ AllExist(s.items, s.before) => s.resp.error = "stock"
              /\ (deployed = "routers" /\ ~AllExist(s.items, s.before))
                    => s.resp.error = "not_found"

\* The second entry of a sale exceeds its product's stock after the first, for
\* another product, had passed the check
C4_Witness ==
    /\ SaleEnded(1)
    /\ session[1].resp.error = "stock"
    /\ Len(session[1].items) = 2
    /\ session[1].items[1].product_id # session[1].items[2].product_id
    /\ session[1].items[1].quantity = 1
    /\ session[1].before.product[session[1].items[1].product_id].stock >= 1
    /\ session[1].items[2].quantity >
           session[1].before.product[session[1].items[2].product_id].stock

\* The entries for product id each fit its stock and together exceed it
SplitExcess(items, id, tables) ==
    /\ id \in DOMAIN tables.product
    /\ Cardinality(EntriesFor(items, id)) >= 2
    /\ \A i \in EntriesFor(items, id) : items[i].quantity <= tables.product[id].stock
    /\ Requested(items, id, 1) > tables.product[id].stock

\* C5, as claimed: a request whose entries for one product each fit its stock
\* and together exceed it fails with the insufficient-stock error and leaves
\* the product's committed stock as it was (stated for well-formed requests
\* and catalogs, the storage layer not failing).
C5_SplitExcessFailsWithStockError ==
    \A id \in ProductIds :
        (SaleEnded(1) /\ SplitExcess(session[1].items, id, session[1].before)
                      /\ WellFormed(session[1].items, session[1].before)
                      /\ session[1].resp.error # "storage") =>
            /\ session[1].resp.error = "stock"
            /\ id \in DOMAIN product
            /\ product[id].stock = session[1].before.product[id].stock

\* C5, amended: such a request fails and leaves the committed tables as they
\* were; the error is insufficient-stock when every product id of the request
\* exists, and not-found or insufficient-stock when one is absent.
C5_SplitExcessFailsAtomically ==
    \A id \in ProductIds :
        (SaleEnded(1) /\ SplitExcess(session[1].items, id, session[1].before)) =>
            LET s == session[1] IN
            /\ s.resp.status # 201
            /\ Tables = s.before
            /\ s.resp.error # "storage" =>
                  /\ s.resp.error \in {"stock", "not_found"}
                  /\ AllExist(s.items, s.before) => s.resp.error = "stock"

\* A product with stock 1 was asked for twice, one unit each, and the sale
\* failed on stock
C5_Witness ==
    /\ SaleEnded(1)
    /\ session[1].resp.error = "stock"
    /\ \E id \in ProductIds :
           /\ SplitExcess(session[1].items, id, session[1].before)
           /\ session[1].before.product[id].stock = 1
           /\ product[id].stock = 1

\* C6: two concurrent create_transaction calls that read the same stock of a
\* product, enough for either request and not for both, do not both succeed
\* (stated for well-formed requests and catalogs).
C6_NoDoubleSale ==
    \A c \in Clients :
        (SaleSucceeded(c) /\ WellFormed(session[c].items, session[c].before)) =>
            \A o \in {x \in session[c].overlapped :
                          \A i \in DOMAIN x.items : x.items[i].quantity >= 1} :
                \A id \in DOMAIN session[c].seen \cap DOMAIN o.seen :
                    ~ /\ o.seen[id].stock = session[c].seen[id].stock
                      /\ Requested(o.items, id, 1) <= o.seen[id].stock
                      /\ Requested(session[c].items, id, 1) <= o.seen[id].stock
                      /\ Requested(o.items, id, 1) + Requested(session[c].items, id, 1)
                             > o.seen[id].stock

\* C7: a storage failure at a flush or commit of create_transaction leaves the
\* committed tables as they were before the call (stated for well-formed,
\* non-empty requests and well-formed catalogs).
C7_StorageFailureLeavesNoTrace ==
    (SaleEnded(1) /\ session[1].resp.error = "storage"
                  /\ session[1].items # <<>>
                  /\ WellFormed(session[1].items, session[1].before)) =>
        Tables = session[1].before

\* C8: create_transaction of routers/transactions.py, given product ids that
\* are not in the catalog, fails with not-found naming every missing id, and
\* the committed tables are unchanged.
C8_MissingIdsAllNamed ==
    (deployed = "routers" /\ SaleEnded(1)
        /\ ~AllExist(session[1].items, session[1].before)) =>
        LET s == session[1] IN
        /\ s.resp.status = 404
        /\ s.resp.missing =
               {s.items[i].product_id : i \in DOMAIN s.items} \ DOMAIN s.before.product
        /\ Tables = s.before

\* A request that names two absent product ids has been refused, both named
C8_Witness ==
    /\ deployed = "routers"
    /\ SaleEnded(1)
    /\ session[1].resp.status = 404
    /\ Cardinality(session[1].resp.missing) = 2

\* C9: create_transaction with an empty item list is rejected with a
\* validation error and persists nothing, in both versions.
C9_EmptyRejected ==
    (SaleEnded(1) /\ session[1].items = <<>> /\ session[1].resp.error # "storage") =>
        /\ session[1].resp.status = 400
        /\ Tables = session[1].before

\* C10: no step changes or removes a recorded transaction's total_amount or a
\* recorded item's price, quantity, product or transaction, and
\* read_transaction reports the recorded total and items.
C10_RecordedSalesImmutable ==
    /\ [][/\ \A t \in DOMAIN transaction :
                t \in DOMAIN transaction' /\ transaction'[t] = transaction[t]
          /\ \A i \in DOMAIN transactionitem :
                i \in DOMAIN transactionitem' /\ transactionitem'[i] = transactionitem[i]
         ]_vars
    /\ [](\A c \in Clients :
            (session[c].op = "read_transaction" /\ session[c].resp.status = 200) =>
                LET b == session[c].resp.body IN
                /\ b.total_amount = transaction[b.id].total_amount
                /\ b.items = ItemsOf(transactionitem, b.id, 1))

\* A transaction read after its product's price changed reports the price
\* recorded at the sale
C10_Witness ==
    \E c \in Clients :
        /\ session[c].op = "read_transaction"
        /\ session[c].resp.status = 200
        /\ \E i \in DOMAIN session[c].resp.body.items :
               LET item == session[c].resp.body.items[i] IN
               /\ item.product_id \in DOMAIN product
               /\ item.quantity = 1
               /\ item.price = 1
               /\ product[item.product_id].price = 2

\* The catalog holds what the spec's data model allows: no negative stock, no
\* negative price
CatalogWellFormed(tables) ==
    \A id \in DOMAIN tables.product :
        tables.product[id].stock >= 0 /\ tables.product[id].price >= 0

\* C11: every TransactionItem that create_transaction persists has a quantity
\* of at least 1 (stated for a sale that met a well-formed catalog).
C11_ItemQuantityPositive ==
    (SaleSucceeded(1) /\ CatalogWellFormed(session[1].before)) =>
        \A i \in DOMAIN transactionitem :
            transactionitem[i].transaction_id = session[1].resp.body.id
                => transactionitem[i].quantity >= 1

\* C12: create_product with a price below 0 or a stock below 0 fails with a
\* validation error (422) and adds no product to the catalog.
C12_NegativeProductRejected ==
    [][\A p \in [price : Prices, stock : Stocks] :
          (create_product(1, p) /\ (p.price < 0 \/ p.stock < 0)) =>
              /\ product' = product
              /\ session'[1].resp.status = 422]_vars

\* C13: when two concurrent create_transaction calls on the same product both
\* succeed, the product's committed stock is its stock before the two calls
\* minus the quantities both asked of it (stated for well-formed requests and
\* catalogs, the stock sufficing for both, no third sale in between).
C13_DeductionsAddUp ==
    \A c \in Clients :
        (/\ SaleSucceeded(c)
         /\ WellFormed(session[c].items, session[c].before)
         /\ Cardinality(DOMAIN transaction \ DOMAIN session[c].before.transaction) = 2) =>
            \A o \in {x \in session[c].overlapped :
                          \A i \in DOMAIN x.items : x.items[i].quantity >= 1} :
                \A id \in DOMAIN session[c].seen \cap DOMAIN o.seen :
                    LET initial == session[c].before.product[id].stock
                        asked == Requested(session[c].items, id, 1)
                                     + Requested(o.items, id, 1)
                    IN (o.seen[id].stock = initial /\ asked <= initial) =>
                           /\ id \in DOMAIN product
                           /\ product[id].stock = initial - asked

\* C14: delete_product on an existing product removes it, recorded transaction
\* items referencing it or not, and leaves the transactions and items as they
\* are; on an absent id it fails with not-found and changes nothing (stated
\* for a well-formed catalog and items of quantity at least 1).
C14_DeleteRemovesProduct ==
    [][\A id \in ProductIds :
          (/\ delete_product(1, id)
           /\ CatalogWellFormed(Tables)
           /\ \A i \in DOMAIN transactionitem : transactionitem[i].quantity >= 1) =>
              /\ transaction' = transaction
              /\ transactionitem' = transactionitem
              /\ IF id \in DOMAIN product
                 THEN /\ session'[1].resp.status = 204
                      /\ product' = [x \in DOMAIN product \ {id} |-> product[x]]
                 ELSE /\ session'[1].resp.status = 404
                      /\ product' = product]_vars

\* Everything committed and every sale in hand is what the spec's data model
\* allows
AllWellFormed ==
    /\ CatalogWellFormed(Tables)
    /\ \A i \in DOMAIN transactionitem : transactionitem[i].quantity >= 1
    /\ \A c \in Clients :
           session[c].op = "create_transaction"
               => WellFormed(session[c].items, session[c].before)

\* C15: a create_transaction call becomes visible in one step, in both
\* versions: in every committed state a transaction's total_amount is the sum
\* of its persisted items, and while no transaction row has been added since
\* a sale arrived, no stock has changed since then (stated for well-formed
\* requests and catalogs).
C15_SaleVisibleAtomically ==
    AllWellFormed =>
        /\ \A t \in DOMAIN transaction :
               transaction[t].total_amount =
                   SumOfLines(ItemsOf(transactionitem, t, 1), 1)
        /\ \A c \in Clients :
               (/\ session[c].op = "create_transaction"
                /\ DOMAIN transaction = DOMAIN session[c].before.transaction)
                   => product = session[c].before.product

\* The first entry, in input order, that asks for more than the stock the
\* earlier entries have left
FirstExceeding(items, tables) ==
    CHOOSE i \in DOMAIN items :
        /\ items[i].quantity > Available(items, i, tables)
        /\ \A j \in 1..(i - 1) : ~(items[j].quantity > Available(items, j, tables))

\* C16: create_transaction of routers/transactions.py validates in a fixed
\* order: an empty list is refused first; then a request naming an absent
\* product id fails with not-found, whether or not an entry exceeds the stock
\* and whatever the order of the entries; then the stock is checked entry by
\* entry, and the error reports the first entry, in input order, that exceeds.
C16_ValidationOrder ==
    (deployed = "routers" /\ SaleEnded(1)) =>
        LET s == session[1] IN
        /\ s.items = <<>> => (s.resp.status = 400 /\ s.resp.error = "empty")
        /\ (s.items # <<>> /\ ~AllExist(s.items, s.before))
               => (s.resp.status = 404 /\ s.resp.error = "not_found")
        /\ (AllExist(s.items, s.before) /\ Exceeds(s.items, s.before)) =>
               LET i == FirstExceeding(s.items, s.before) IN
               /\ s.resp.status = 400 /\ s.resp.error = "stock"
               /\ s.resp.product_id = s.items[i].product_id
               /\ s.resp.requested = s.items[i].quantity
               /\ s.resp.available = Available(s.items, i, s.before)

\* A request whose first entry exceeds the stock of its product and whose
\* last entry names an absent product has been refused with not-found
C16_Witness ==
    /\ deployed = "routers"
    /\ SaleEnded(1)
    /\ session[1].resp.error = "not_found"
    /\ Len(session[1].items) >= 2
    /\ session[1].items[1].product_id \in DOMAIN session[1].before.product
    /\ session[1].items[1].quantity >= 1
    /\ session[1].items[1].quantity >
           session[1].before.product[session[1].items[1].product_id].stock
    /\ session[1].before.product[session[1].items[1].product_id].stock >= 0
    /\ session[1].items[Len(session[1].items)].product_id
           \notin DOMAIN session[1].before.product

\* C17: create_transaction of routers/transactions.py reads the catalog
\* exactly once per call, the batched lookup, however many entries the request
\* has (stated for a successful sale of a well-formed request).
C17_OneCatalogRead ==
    (/\ deployed = "routers"
     /\ SaleSucceeded(1)
     /\ WellFormed(session[1].items, session[1].before)) =>
        session[1].reads = 1

\* C18: a successful create_transaction persists one TransactionItem per entry
\* of the request, in input order, entries for the same product not merged;
\* each item carries its entry's product_id and quantity, the price the
\* product had when the request arrived, and the id of the new transaction.
C18_OneItemPerEntry ==
    \A c \in Clients :
        SaleSucceeded(c) =>
            LET s == session[c]
                t == s.resp.body.id
                rows == ItemsOf(transactionitem, t, 1)
            IN /\ t \in DOMAIN transaction \ DOMAIN s.before.transaction
               /\ DOMAIN rows = DOMAIN s.items
               /\ \A i \in DOMAIN s.items :
                      /\ rows[i].product_id = s.items[i].product_id
                      /\ rows[i].quantity = s.items[i].quantity
                      /\ rows[i].price = s.before.product[s.items[i].product_id].price
                      /\ rows[i].transaction_id = t

\* A sale that names one product in two entries of one unit each has
\* succeeded, and its two items are in the table
C18_Witness ==
    \E c \in Clients :
        /\ SaleSucceeded(c)
        /\ Len(session[c].items) = 2
        /\ session[c].items[1] = session[c].items[2]
        /\ session[c].items[1].quantity = 1
        /\ Len(ItemsOf(transactionitem, session[c].resp.body.id, 1)) = 2

\* The quantities of the persisted items that reference product id, added up
RECURSIVE SoldOf(_, _, _)
SoldOf(rows, id, i) ==
    IF i > Len(rows) THEN 0
    ELSE (IF rows[i].product_id = id THEN rows[i].quantity ELSE 0)
         + SoldOf(rows, id, i + 1)

\* C19: in a sequential run of product creations and create_transaction calls
\* only, between two calls the stock every product was created with is its
\* committed stock plus the quantities of the persisted items that reference
\* it (stated for well-formed requests and catalogs).
C19_StockConserved ==
    (session[1].pc \in {"idle", "done"} /\ AllWellFormed) =>
        \A id \in DOMAIN product :
            initial_stock[id] = product[id].stock + SoldOf(transactionitem, id, 1)

====
